---- MODULE Spec2Model ----
(***************************************************************************)
(* A model of scrape.py: the scraper of a Kubra outage map into SQLite.    *)
(*                                                                         *)
(* The state is the SQLite database (committed tables and the open         *)
(* transaction's working copy), the process globals (n_requests, enums),   *)
(* and the locals of main() and scrape() with a program counter.  Times    *)
(* are epoch seconds.  A point is the pair of fixed-point integers         *)
(* <<ilon, ilat>> that the polyline encodes; tiles are quadkey digit       *)
(* sequences below the site's top tile, whose bounding box is the square   *)
(* [0, Grid] x [0, Grid].  Of the description's fields the model keeps     *)
(* cluster, cust_a, outages and one enumerated column (cause); keys_ok     *)
(* stands for the key-set assertion of save().                             *)
(***************************************************************************)
EXTENDS Integers, Sequences, FiniteSets, TLC

\* ---------------------------------------------------------------- bounds
MaxDepth == 1
MaxRecords == 2
MaxData == 3
MaxRequests == 4
MaxRequestsLong == 31
LongSnapshots == 6
FirstSnapshots == 2
MaxDataRows == 2

\* ------------------------------------------------------------ parameters
request_sleep_interval == 30
max_tries == 3
query_time_increment == 900
subquery_time_increment == 30
subquery_time_max_dist == 90
date_min == 1582088400

top_tiles == << <<>> >>
site_code == 0
na_like_values == {"Not Supplied"}
EnumCols == {"cause"}

None == "None"
Null == <<>>
Some(v) == <<v>>

\* --------------------------------------------------------------- helpers
RECURSIVE Pow2(_)
Pow2(n) == IF n = 0 THEN 1 ELSE 2 * Pow2(n - 1)

Grid == Pow2(MaxDepth + 1)

RECURSIVE TileX(_)
TileX(t) == IF t = <<>> THEN 0 ELSE 2 * TileX(SubSeq(t, 1, Len(t) - 1)) + (t[Len(t)] % 2)

RECURSIVE TileY(_)
TileY(t) == IF t = <<>> THEN 0 ELSE 2 * TileY(SubSeq(t, 1, Len(t) - 1)) + (t[Len(t)] \div 2)

TileSize(t) == Grid \div Pow2(Len(t))

\* to_geo(ANCHOR_SW) and to_geo(ANCHOR_NE) as <<lat, lon>>; tile rows count
\* southwards from the top edge.
to_geo_SW(t) == << Grid - (TileY(t) + 1) * TileSize(t), TileX(t) * TileSize(t) >>
to_geo_NE(t) == << Grid - TileY(t) * TileSize(t), (TileX(t) + 1) * TileSize(t) >>

\* The north and east edges left out of the tile.
PointInTileHalfOpen(p, t) ==
    LET lon == p[1]
        lat == p[2]
        lat_min == to_geo_SW(t)[1]
        lon_min == to_geo_SW(t)[2]
        lat_max == to_geo_NE(t)[1]
        lon_max == to_geo_NE(t)[2]
    IN  lon_min <= lon /\ lon < lon_max /\ lat_min <= lat /\ lat < lat_max

point_in_tile(p, t) ==
    LET lon == p[1]
        lat == p[2]
        lat_min == to_geo_SW(t)[1]
        lon_min == to_geo_SW(t)[2]
        lat_max == to_geo_NE(t)[1]
        lon_max == to_geo_NE(t)[2]
    IN  lon_min <= lon /\ lon <= lon_max /\ lat_min <= lat /\ lat <= lat_max

children(t) == << Append(t, 0), Append(t, 1), Append(t, 2), Append(t, 3) >>

InSeq(x, s) == \E i \in 1..Len(s) : s[i] = x

RECURSIVE SumCust(_)
SumCust(sub) == IF sub = <<>> THEN 0 ELSE sub[1].cust_a + SumCust(Tail(sub))

\* ------------------------------------------------- upstream (the inputs)
Desc(c, m) == [cluster |-> FALSE, cust_a |-> c, cause |-> m, outages |-> <<>>, keys_ok |-> TRUE]
D1 == Desc(1, "tree")
D2 == Desc(2, "storm")
Dna == Desc(2, "Not Supplied")
Dbad == [Desc(1, "tree") EXCEPT !.keys_ok = FALSE]
ClusterDesc(c, sub) == [cluster |-> TRUE, cust_a |-> c, cause |-> "None", outages |-> sub, keys_ok |-> TRUE]

P1 == <<1, 1>>
Pmid == <<Grid \div 2, Grid \div 2>>

Records == {
    [p |-> P1, desc |-> D1],
    [p |-> P1, desc |-> D2],
    [p |-> P1, desc |-> Dbad],
    [p |-> Pmid, desc |-> ClusterDesc(3, <<D1, Dna>>)],
    [p |-> Pmid, desc |-> ClusterDesc(2, <<D1, Dna>>)],
    [p |-> P1, desc |-> ClusterDesc(5, <<>>)],
    [p |-> Pmid, desc |-> ClusterDesc(5, <<>>)] }

Bodies == UNION { [1..n -> Records] : n \in 0..MaxRecords }

Unitemized(rec) == rec.desc.cluster /\ rec.desc.outages = <<>>

\* The upstream publishes clusters without sub-events only above MaxDepth.
BodiesFor(t) ==
    { b \in Bodies : Len(t) >= MaxDepth => \A i \in 1..Len(b) : ~Unitemized(b[i]) }

\* ----------------------------------------------------------------- state
VARIABLES
    db,           \* the committed database: Jobs, Events, Enumeration
    txn,          \* <<>> or <<working copy>> of the open write transaction
    pc,           \* position of the process
    err,          \* the exception that ended the run, "" if none
    n_requests,   \* global request counter
    enums,        \* global in-memory enumeration mirror: column -> meaning -> code
    job_id,       \* main(): the selected job
    time_next,    \* main(): the timestamp handed to scrape()
    time_actual,  \* main(): the timestamp scrape() returned
    events,       \* scrape(): the triples <<p, outage_ix, desc>>
    tiles,        \* scrape(): the work queue
    time_initial, \* scrape(): the requested timestamp
    the_time,     \* scrape(): the current timestamp
    tile,         \* scrape(): the tile being fetched
    tries,        \* scrape(): attempts at the current timestamp
    r,            \* scrape(): the last response, [status, body]
    slept,        \* trace: the sleep() calls of the last step
    sent,         \* trace: requests issued for the current tile at the current timestamp
    naps,         \* trace: retry sleeps for the current tile at the current timestamp
    reqTimes,     \* trace: timestamps of the requests of the current snapshot
    okTimes,      \* trace: request timestamps of the successful responses of the snapshot
    popped,       \* trace: the tiles dequeued in the snapshot, in order
    unslept,      \* trace: requests of this run since its last between-requests sleep
    dataLeft,     \* records the upstream still serves
    cap           \* requests a run may issue

persistent == <<db, txn>>
globals == <<n_requests, enums, unslept>>
mainLocals == <<job_id, time_next, time_actual>>
scrapeLocals == <<events, tiles, time_initial, the_time, tile, tries, r>>
trace == <<slept, sent, naps, reqTimes, okTimes, popped>>
limits == <<dataLeft, cap>>
vars == <<db, txn, pc, err, n_requests, enums, job_id, time_next, time_actual,
          events, tiles, time_initial, the_time, tile, tries, r,
          slept, sent, naps, reqTimes, okTimes, popped, unslept, dataLeft, cap>>

NoResponse == [status |-> "none", body |-> <<>>]

\* The connection's view of the database, and a statement's write to it:
\* the connection is in autocommit mode unless a transaction was begun.
Cur == IF txn = <<>> THEN db ELSE txn[1]

\* The Jobs table as the operator filled it after the schema was created:
\* two jobs of the one site over the same one-snapshot window.
JobsShort ==
    (1 :> [site |-> site_code, time_max |-> date_min, time_next |-> Null]) @@
    (2 :> [site |-> site_code, time_max |-> date_min, time_next |-> Some(date_min)])

\* One job over a window of LongSnapshots snapshots.
JobsLong ==
    (1 :> [site |-> site_code,
           time_max |-> date_min + (LongSnapshots - 1) * query_time_increment,
           time_next |-> Null])

\* Two jobs of the one site, one window after the other: FirstSnapshots
\* snapshots for the lower job, not yet begun, and one for the higher.
JobsTwo ==
    (1 :> [site |-> site_code,
           time_max |-> date_min + (FirstSnapshots - 1) * query_time_increment,
           time_next |-> Null]) @@
    (2 :> [site |-> site_code,
           time_max |-> date_min + FirstSnapshots * query_time_increment,
           time_next |-> Some(date_min + FirstSnapshots * query_time_increment)])

\* One job over a window of FirstSnapshots snapshots.
JobsRows ==
    (1 :> [site |-> site_code,
           time_max |-> date_min + (FirstSnapshots - 1) * query_time_increment,
           time_next |-> Null])

\* init_db() on an existing database: the mirror is read from the tables.
LoadEnums(d) ==
    [ec \in EnumCols |->
        [m \in {row.meaning : row \in d.Enumeration[ec]} |->
            (CHOOSE row \in d.Enumeration[ec] : row.meaning = m).code]]

EmptyDb(jobs) ==
    [Jobs |-> jobs, Events |-> {}, Enumeration |-> [ec \in EnumCols |-> {}]]

InitWith(jobs, data, requests) ==
    /\ db = EmptyDb(jobs)
    /\ txn = <<>>
    /\ pc = "main"
    /\ err = ""
    /\ n_requests = 0
    /\ enums = LoadEnums(EmptyDb(jobs))
    /\ job_id = 0
    /\ time_next = 0
    /\ time_actual = 0
    /\ events = <<>>
    /\ tiles = <<>>
    /\ time_initial = 0
    /\ the_time = 0
    /\ tile = <<>>
    /\ tries = 0
    /\ r = NoResponse
    /\ slept = <<>>
    /\ sent = 0
    /\ naps = 0
    /\ reqTimes = {}
    /\ okTimes = {}
    /\ popped = <<>>
    /\ unslept = 0
    /\ dataLeft = data
    /\ cap = requests

Init == InitWith(JobsShort, MaxData, MaxRequests)

\* The realignments of one snapshot, and the requests the snapshots of
\* JobsTwo can take when no tile has children.
MaxShifts == subquery_time_max_dist \div subquery_time_increment

MaxRequestsJobs == (FirstSnapshots + 1) * (MaxShifts + 1) * max_tries

\* The two jobs are served without records, and a run is never cut short.
InitJobs == InitWith(JobsTwo, 0, MaxRequestsJobs)

InitRows == InitWith(JobsRows, MaxDataRows, MaxRequests)

\* The tiles down to MaxDepth, and a tile's chain of ancestors down to it.
AllTiles == UNION { [1..d -> 0..3] : d \in 0..MaxDepth }

Lineage(t) == [i \in 1..(Len(t) + 1) |-> SubSeq(t, 1, i - 1)]

GridPoints == (0..Grid) \X (0..Grid)

\* scrape() at line 181 in the first snapshot: any tile has answered with
\* one cluster without sub-events at any point of the grid, the tiles above
\* it having led to it alone.
InitGeo ==
    \E t \in AllTiles, p \in GridPoints :
        /\ db = EmptyDb(JobsRows)
        /\ txn = <<>>
        /\ pc = "process"
        /\ err = ""
        /\ n_requests = Len(t) + 1
        /\ enums = LoadEnums(EmptyDb(JobsRows))
        /\ job_id = 1
        /\ time_next = date_min
        /\ time_actual = 0
        /\ events = <<>>
        /\ tiles = <<>>
        /\ time_initial = date_min
        /\ the_time = date_min
        /\ tile = t
        /\ tries = 1
        /\ r = [status |-> "ok", body |-> << [p |-> p, desc |-> ClusterDesc(5, <<>>)] >>]
        /\ slept = <<>>
        /\ sent = 1
        /\ naps = 0
        /\ reqTimes = {date_min}
        /\ okTimes = {date_min}
        /\ popped = Lineage(t)
        /\ unslept = Len(t) + 1
        /\ dataLeft = 0
        /\ cap = Len(t) + 1

\* The long window is served without records: empty bodies, forbidden, errors.
InitLong == InitWith(JobsLong, 0, MaxRequestsLong)

\* ------------------------------------------------------------------ main
Eligible(jobs) ==
    { j \in DOMAIN jobs :
        jobs[j].time_next = Null \/ jobs[j].time_next[1] <= jobs[j].time_max }

\* `order by job_id desc`
MaxOf(S) == CHOOSE x \in S : \A y \in S : x >= y

\* `order by job_id limit 1`
MinOf(S) == CHOOSE x \in S : \A y \in S : x <= y

\* `if time_next`: a null cursor (and a zero one) starts at date_min.
StartTime(cursor) ==
    IF cursor # Null /\ cursor[1] # 0 THEN cursor[1] ELSE date_min

\* main(): no job is left.
AllDone ==
    /\ pc = "main"
    /\ Eligible(Cur.Jobs) = {}
    /\ pc' = "done"
    /\ slept' = <<>>
    /\ UNCHANGED <<persistent, err, globals, mainLocals, scrapeLocals,
                   sent, naps, reqTimes, okTimes, popped, limits>>

\* main(): select the job and enter scrape().
Select ==
    /\ pc = "main"
    /\ Eligible(Cur.Jobs) # {}
    /\ LET j == MinOf(Eligible(Cur.Jobs))
           t == StartTime(Cur.Jobs[j].time_next)
       IN  /\ job_id' = j
           /\ time_next' = t
           /\ time_initial' = t
           /\ the_time' = t
    /\ events' = <<>>
    /\ tiles' = top_tiles
    /\ pc' = "loop"
    /\ slept' = <<>>
    /\ sent' = 0
    /\ naps' = 0
    /\ reqTimes' = {}
    /\ okTimes' = {}
    /\ popped' = <<>>
    /\ popped' = <<>>
    /\ UNCHANGED <<persistent, err, globals, time_actual, tile, tries, r, limits>>

\* ---------------------------------------------------------------- scrape
\* `while tiles: tile = tiles.pop(0); tries = 0`
Pop ==
    /\ pc = "loop"
    /\ tiles # <<>>
    /\ tile' = Head(tiles)
    /\ tiles' = Tail(tiles)
    /\ tries' = 0
    /\ r' = NoResponse
    /\ pc' = "get"
    /\ slept' = <<>>
    /\ sent' = 0
    /\ naps' = 0
    /\ popped' = Append(popped, Head(tiles))
    /\ UNCHANGED <<persistent, err, globals, mainLocals, events, time_initial,
                   the_time, reqTimes, okTimes, limits>>

\* The requested timestamp returned instead of the current one.
ReturnRequested ==
    /\ pc = "loop"
    /\ tiles = <<>>
    /\ time_actual' = time_initial
    /\ tile' = <<>>
    /\ tries' = 0
    /\ r' = NoResponse
    /\ pc' = "begin"
    /\ slept' = <<>>
    /\ sent' = 0
    /\ naps' = 0
    /\ UNCHANGED <<persistent, err, globals, job_id, time_next, events, tiles,
                   time_initial, the_time, reqTimes, okTimes, popped, limits>>

\* `return events, the_time`, back in main() before `begin`.
Return ==
    /\ pc = "loop"
    /\ tiles = <<>>
    /\ time_actual' = the_time
    /\ tile' = <<>>
    /\ tries' = 0
    /\ r' = NoResponse
    /\ pc' = "begin"
    /\ slept' = <<>>
    /\ sent' = 0
    /\ naps' = 0
    /\ UNCHANGED <<persistent, err, globals, job_id, time_next, events, tiles,
                   time_initial, the_time, reqTimes, okTimes, popped, limits>>

ThrottleBeforeCount(n) == (n - 1) % request_sleep_interval = 0

Throttle(n) == n % request_sleep_interval = 0

AnyTile(t) == TRUE

IsAnchor(t) == t = top_tiles[1]

GiveUpLate(now, initial) == now - initial > subquery_time_max_dist + subquery_time_increment

GiveUpEarly(now, initial) == now - initial >= subquery_time_max_dist

GiveUp(now, initial) == now - initial > subquery_time_max_dist

OutOfTriesLate(n) == n > max_tries

\* The retries never run out.
OutOfTriesNever(n) == FALSE

OutOfTries(n) == n >= max_tries

\* One pass of the `while True` loop: sleepy_get() and the response's branch.
Attempt ==
    /\ pc = "get"
    /\ n_requests < cap
    /\ \E status \in {"ok", "forbidden", "error"} :
       \E body \in (IF status = "ok" THEN BodiesFor(tile) ELSE {<<>>}) :
        /\ Len(body) <= dataLeft
        /\ dataLeft' = dataLeft - Len(body)
        /\ n_requests' = n_requests + 1
        /\ unslept' = IF Throttle(n_requests + 1) THEN 0 ELSE unslept + 1
        /\ reqTimes' = reqTimes \cup {the_time}
        /\ okTimes' = IF status = "ok" THEN okTimes \cup {the_time} ELSE okTimes
        /\ LET zz == IF Throttle(n_requests + 1) THEN <<"between_requests">> ELSE <<>>
               shifted == the_time + subquery_time_increment
           IN  CASE status = "ok" ->
                     /\ r' = [status |-> status, body |-> body]
                     /\ pc' = "process"
                     /\ tries' = tries + 1
                     /\ sent' = sent + 1
                     /\ slept' = zz
                     /\ UNCHANGED <<the_time, naps, err>>
                 [] status = "forbidden" /\ IsAnchor(tile) /\ ~GiveUp(shifted, time_initial) ->
                     /\ r' = [status |-> status, body |-> body]
                     /\ the_time' = shifted
                     /\ tries' = 0
                     /\ pc' = "get"
                     /\ sent' = 0
                     /\ naps' = 0
                     /\ slept' = zz
                     /\ UNCHANGED err
                 [] status = "forbidden" /\ IsAnchor(tile) /\ GiveUp(shifted, time_initial) ->
                     /\ r' = [status |-> status, body |-> body]
                     /\ the_time' = shifted
                     /\ tries' = tries + 1
                     /\ pc' = "loop"
                     /\ sent' = sent + 1
                     /\ slept' = zz
                     /\ UNCHANGED <<naps, err>>
                 [] status = "forbidden" /\ ~IsAnchor(tile) ->
                     /\ r' = [status |-> status, body |-> body]
                     /\ tries' = tries + 1
                     /\ pc' = "loop"
                     /\ sent' = sent + 1
                     /\ slept' = zz
                     /\ UNCHANGED <<the_time, naps, err>>
                 [] status = "error" /\ OutOfTries(tries + 1) ->
                     /\ r' = [status |-> status, body |-> body]
                     /\ tries' = tries + 1
                     /\ pc' = "raised"
                     /\ err' = "RetriesExceeded"
                     /\ sent' = sent + 1
                     /\ slept' = zz
                     /\ UNCHANGED <<the_time, naps>>
                 [] status = "error" /\ ~OutOfTries(tries + 1) ->
                     /\ r' = [status |-> status, body |-> body]
                     /\ tries' = tries + 1
                     /\ pc' = "get"
                     /\ sent' = sent + 1
                     /\ naps' = naps + 1
                     /\ slept' = zz \o <<"retry">>
                     /\ UNCHANGED <<the_time, err>>
    /\ UNCHANGED <<persistent, enums, mainLocals, events, tiles, time_initial,
                   tile, popped, cap>>

\* Every child not yet queued is appended, wherever the point lies.
RECURSIVE EnqueueAll(_, _, _)
EnqueueAll(p, kids, queue) ==
    IF kids = <<>> THEN queue
    ELSE EnqueueAll(p, Tail(kids),
                    IF ~InSeq(Head(kids), queue)
                    THEN Append(queue, Head(kids)) ELSE queue)

\* The test `child not in tiles` left out.
RECURSIVE EnqueueDup(_, _, _)
EnqueueDup(p, kids, queue) ==
    IF kids = <<>> THEN queue
    ELSE EnqueueDup(p, Tail(kids),
                    IF point_in_tile(p, Head(kids))
                    THEN Append(queue, Head(kids)) ELSE queue)

\* `for child in tile.children(): if point_in_tile(p, child) and child not
\* in tiles: tiles.append(child)`
RECURSIVE Enqueue(_, _, _)
Enqueue(p, kids, queue) ==
    IF kids = <<>> THEN queue
    ELSE Enqueue(p, Tail(kids),
                 IF point_in_tile(p, Head(kids)) /\ ~InSeq(Head(kids), queue)
                 THEN Append(queue, Head(kids)) ELSE queue)

SubEventsZeroBased(p, sub) == [i \in 1..Len(sub) |-> <<p, i - 1, sub[i]>>]

SubEvents(p, sub) == [i \in 1..Len(sub) |-> <<p, i, sub[i]>>]

\* The loop with its assertions stripped.
RECURSIVE ProcessBodyUnchecked(_, _, _, _)
ProcessBodyUnchecked(body, t, evs, queue) ==
    IF body = <<>> THEN [ok |-> TRUE, events |-> evs, tiles |-> queue]
    ELSE LET outage == Head(body)
             p == outage.p
             sub == outage.desc.outages
         IN  IF ~outage.desc.cluster
             THEN ProcessBodyUnchecked(Tail(body), t, Append(evs, <<p, 1, outage.desc>>), queue)
             ELSE IF sub # <<>>
                  THEN ProcessBodyUnchecked(Tail(body), t, evs \o SubEvents(p, sub), queue)
                  ELSE ProcessBodyUnchecked(Tail(body), t, evs, Enqueue(p, children(t), queue))

RECURSIVE ProcessBody(_, _, _, _)
ProcessBody(body, t, evs, queue) ==
    IF body = <<>> THEN [ok |-> TRUE, events |-> evs, tiles |-> queue]
    ELSE LET outage == Head(body)
             p == outage.p
             sub == outage.desc.outages
         IN  IF ~outage.desc.cluster
             THEN IF sub # <<>>
                  THEN [ok |-> FALSE, events |-> evs, tiles |-> queue]
                  ELSE ProcessBody(Tail(body), t, Append(evs, <<p, 1, outage.desc>>), queue)
             ELSE IF sub # <<>>
                  THEN IF outage.desc.cust_a # SumCust(sub)
                       THEN [ok |-> FALSE, events |-> evs, tiles |-> queue]
                       ELSE ProcessBody(Tail(body), t, evs \o SubEvents(p, sub), queue)
                  ELSE ProcessBody(Tail(body), t, evs, Enqueue(p, children(t), queue))

\* Lines 178-210 for a successful response.
Process ==
    /\ pc = "process"
    /\ LET res == ProcessBody(r.body, tile, events, tiles)
       IN  IF res.ok
           THEN /\ events' = res.events
                /\ tiles' = res.tiles
                /\ pc' = "loop"
                /\ UNCHANGED err
           ELSE /\ pc' = "raised"
                /\ err' = "AssertionError"
                /\ UNCHANGED <<events, tiles>>
    /\ r' = [r EXCEPT !.body = <<>>]
    /\ slept' = <<>>
    /\ UNCHANGED <<persistent, globals, mainLocals, time_initial, the_time, tile,
                   tries, sent, naps, reqTimes, okTimes, popped, limits>>

\* ------------------------------------------------------------------ save
Truthy(v) == v # None /\ v # ""

NaToNone(v) == IF v \in na_like_values THEN None ELSE v

\* Codes allocated from 1.
SetDefaultFromOne(mirror, m) ==
    IF m \in DOMAIN mirror THEN mirror ELSE mirror @@ (m :> Cardinality(DOMAIN mirror) + 1)

SetDefault(mirror, m) ==
    IF m \in DOMAIN mirror THEN mirror ELSE mirror @@ (m :> Cardinality(DOMAIN mirror))

Row(ev, mirror, t) ==
    [site |-> site_code,
     ilon |-> ev[1][1],
     ilat |-> ev[1][2],
     time |-> t,
     outage_ix |-> ev[2],
     cust_a |-> ev[3].cust_a,
     codes |-> [ec \in EnumCols |->
                 IF Truthy(NaToNone(ev[3][ec])) THEN Some(mirror[ec][NaToNone(ev[3][ec])])
                 ELSE Null]]

\* The test `if d not in out` left out.
RECURSIVE NormalizeNoDedup(_, _, _, _)
NormalizeNoDedup(evs, mirror, out, t) ==
    IF evs = <<>> THEN [ok |-> TRUE, enums |-> mirror, out |-> out]
    ELSE LET ev == Head(evs)
         IN  IF ~ev[3].keys_ok
             THEN [ok |-> FALSE, enums |-> mirror, out |-> out]
             ELSE LET grown == [ec \in EnumCols |->
                                 IF Truthy(NaToNone(ev[3][ec]))
                                 THEN SetDefault(mirror[ec], NaToNone(ev[3][ec]))
                                 ELSE mirror[ec]]
                  IN  NormalizeNoDedup(Tail(evs), grown,
                                       Append(out, Row(ev, grown, t)), t)

\* The loop of save() over `events`: the mirror grows, `out` keeps the
\* first occurrence of each full row.
RECURSIVE Normalize(_, _, _, _)
Normalize(evs, mirror, out, t) ==
    IF evs = <<>> THEN [ok |-> TRUE, enums |-> mirror, out |-> out]
    ELSE LET ev == Head(evs)
         IN  IF ~ev[3].keys_ok
             THEN [ok |-> FALSE, enums |-> mirror, out |-> out]
             ELSE LET grown == [ec \in EnumCols |->
                                 IF Truthy(NaToNone(ev[3][ec]))
                                 THEN SetDefault(mirror[ec], NaToNone(ev[3][ec]))
                                 ELSE mirror[ec]]
                      d == Row(ev, grown, t)
                  IN  Normalize(Tail(evs), grown,
                                IF InSeq(d, out) THEN out ELSE Append(out, d), t)

Pairs(mirror) == { [code |-> mirror[m], meaning |-> m] : m \in DOMAIN mirror }

\* `insert or ignore into Enumeration_ec`: code is the primary key, meaning unique.
RECURSIVE InsertOrIgnore(_, _)
InsertOrIgnore(table, pairs) ==
    IF pairs = {} THEN table
    ELSE LET x == CHOOSE x \in pairs : \A y \in pairs : x.code <= y.code
         IN  InsertOrIgnore(
                 IF \E row \in table : row.code = x.code \/ row.meaning = x.meaning
                 THEN table ELSE table \cup {x},
                 pairs \ {x})

Key(row) == <<row.site, row.ilon, row.ilat, row.time, row.outage_ix>>

ForeignKeysOk(row, enumeration) ==
    \A ec \in EnumCols :
        row.codes[ec] # Null => \E e \in enumeration[ec] : e.code = row.codes[ec][1]

\* `insert or ignore into Events`: a row that violates a constraint is skipped.
RECURSIVE InsertEventsIgnore(_, _, _)
InsertEventsIgnore(table, out, enumeration) ==
    IF out = <<>> THEN [ok |-> TRUE, Events |-> table]
    ELSE IF (\E row \in table : Key(row) = Key(Head(out)))
            \/ ~ForeignKeysOk(Head(out), enumeration)
         THEN InsertEventsIgnore(table, Tail(out), enumeration)
         ELSE InsertEventsIgnore(table \cup {Head(out)}, Tail(out), enumeration)

\* `insert into Events`, row by row; the first violated constraint raises
\* and leaves the rows before it inserted.
RECURSIVE InsertEvents(_, _, _)
InsertEvents(table, out, enumeration) ==
    IF out = <<>> THEN [ok |-> TRUE, Events |-> table]
    ELSE IF (\E row \in table : Key(row) = Key(Head(out)))
            \/ ~ForeignKeysOk(Head(out), enumeration)
         THEN [ok |-> FALSE, Events |-> table]
         ELSE InsertEvents(table \cup {Head(out)}, Tail(out), enumeration)

\* A statement's write: into the open transaction, or committed at once
\* when none is open (isolation_level = None).
Write(new) ==
    IF txn = <<>> THEN db' = new /\ txn' = txn
    ELSE txn' = <<new>> /\ db' = db

\* `begin` left out: every statement commits at once.
BeginNothing ==
    /\ pc = "begin"
    /\ pc' = "save"
    /\ slept' = <<>>
    /\ UNCHANGED <<persistent, err, globals, mainLocals, scrapeLocals, sent, naps,
                   reqTimes, okTimes, popped, limits>>

\* `db.execute('begin')`
Begin ==
    /\ pc = "begin"
    /\ txn' = <<db>>
    /\ pc' = "save"
    /\ slept' = <<>>
    /\ UNCHANGED <<db, err, globals, mainLocals, scrapeLocals, sent, naps,
                   reqTimes, okTimes, popped, limits>>

\* save(site, events, time_actual), lines 214-261.
Save ==
    /\ pc = "save"
    /\ slept' = <<>>
    /\ IF events = <<>>
       THEN /\ pc' = "update"
            /\ UNCHANGED <<persistent, enums, err>>
       ELSE LET n == Normalize(events, enums, <<>>, time_actual)
                enumeration == [ec \in EnumCols |->
                                 InsertOrIgnore(Cur.Enumeration[ec], Pairs(n.enums[ec]))]
                ins == InsertEvents(Cur.Events, n.out, enumeration)
            IN  /\ enums' = n.enums
                /\ IF ~n.ok
                   THEN /\ pc' = "raised"
                        /\ err' = "AssertionError"
                        /\ UNCHANGED persistent
                   ELSE /\ Write([Cur EXCEPT !.Enumeration = enumeration,
                                             !.Events = ins.Events])
                        /\ IF ins.ok
                           THEN pc' = "update" /\ UNCHANGED err
                           ELSE pc' = "raised" /\ err' = "IntegrityError"
    /\ UNCHANGED <<n_requests, unslept, mainLocals, scrapeLocals, sent, naps,
                   reqTimes, okTimes, popped, limits>>

NextCursorActual(requested, actual) == actual + query_time_increment

\* The cursor moved by the realignment step instead of the query step.
NextCursorShort(requested, actual) == requested + subquery_time_increment

NextCursor(requested, actual) == requested + query_time_increment

\* `time_next += query_time_increment` and `update Jobs set time_next`.
Update ==
    /\ pc = "update"
    /\ time_next' = NextCursor(time_next, time_actual)
    /\ Write([Cur EXCEPT !.Jobs[job_id].time_next =
                            Some(NextCursor(time_next, time_actual))])
    /\ pc' = "commit"
    /\ slept' = <<>>
    /\ UNCHANGED <<err, globals, job_id, time_actual, scrapeLocals, sent, naps,
                   reqTimes, okTimes, popped, limits>>

\* The locals of a finished snapshot are dead.
Forget ==
    /\ job_id' = 0
    /\ time_next' = 0
    /\ time_actual' = 0
    /\ events' = <<>>
    /\ tiles' = <<>>
    /\ time_initial' = 0
    /\ the_time' = 0
    /\ tile' = <<>>
    /\ tries' = 0
    /\ r' = NoResponse
    /\ slept' = <<>>
    /\ sent' = 0
    /\ naps' = 0
    /\ reqTimes' = {}
    /\ okTimes' = {}
    /\ popped' = <<>>

\* The commit left out: the transaction stays open into the next snapshot.
CommitForgotten ==
    /\ pc = "commit"
    /\ pc' = "main"
    /\ Forget
    /\ UNCHANGED <<persistent, err, globals, limits>>

\* `db.execute('commit')`, then the next pass of main()'s loop.
Commit ==
    /\ pc = "commit"
    /\ IF txn = <<>>
       THEN /\ pc' = "raised"
            /\ err' = "OperationalError"
            /\ UNCHANGED <<persistent, mainLocals, scrapeLocals, trace>>
       ELSE /\ db' = txn[1]
            /\ txn' = <<>>
            /\ pc' = "main"
            /\ Forget
            /\ UNCHANGED err
    /\ UNCHANGED <<globals, limits>>

\* --------------------------------------------------- the end of a run
\* An exception leaves through `finally: db.close()`, which rolls back;
\* the process and its memory are gone.
Close ==
    /\ pc = "raised"
    /\ txn' = <<>>
    /\ pc' = "exited"
    /\ n_requests' = 0
    /\ unslept' = 0
    /\ enums' = [ec \in EnumCols |-> <<>>]
    /\ Forget
    /\ UNCHANGED <<db, err, limits>>

\* The process is killed; the open transaction is lost with it.
Interrupt ==
    /\ pc \in {"main", "loop", "get", "process", "begin", "save", "update", "commit"}
    /\ txn' = <<>>
    /\ pc' = "killed"
    /\ n_requests' = 0
    /\ unslept' = 0
    /\ enums' = [ec \in EnumCols |-> <<>>]
    /\ Forget
    /\ UNCHANGED <<db, err, limits>>

\* The operator runs the program again: init_db() and main().
Restart ==
    /\ pc \in {"exited", "killed"}
    /\ enums' = LoadEnums(db)
    /\ n_requests' = 0
    /\ unslept' = 0
    /\ err' = ""
    /\ pc' = "main"
    /\ UNCHANGED <<mainLocals, scrapeLocals, trace>>
    /\ UNCHANGED <<persistent, dataLeft, cap>>

Next ==
    \/ AllDone
    \/ Select
    \/ Pop
    \/ Return
    \/ Attempt
    \/ Process
    \/ Begin
    \/ Save
    \/ Update
    \/ Commit
    \/ Close
    \/ Interrupt
    \/ Restart

Spec == Init /\ [][Next]_vars

SpecLong == InitLong /\ [][Next]_vars

\* The program runs on: every step of the process that can be taken is
\* taken. Nothing obliges the operator to kill or to restart it.
Run ==
    \/ AllDone
    \/ Select
    \/ Pop
    \/ Return
    \/ Attempt
    \/ Process
    \/ Begin
    \/ Save
    \/ Update
    \/ Commit
    \/ Close

SpecJobs == InitJobs /\ [][Next]_vars /\ WF_vars(Run)

SpecRows == InitRows /\ [][Next]_vars

\* Lines 181-210 on their own, for the geometry of tiles and points.
NextGeo == Process

SpecGeo == InitGeo /\ [][NextGeo]_vars

\* ================================================================ claims
InSnapshot == pc \in {"loop", "get", "process", "begin", "save", "update", "commit"}

InCommit == pc \in {"begin", "save", "update", "commit"}

Committing == pc = "commit" /\ pc' = "main"

\* C1 (as stated): after the commit of a snapshot requested at t0 whose
\* traversal ended at the actual timestamp ta, the job's stored cursor is
\* ta + 15 minutes.
C1_CursorFromActual ==
    [][Committing => db'.Jobs[job_id].time_next = Some(time_actual + query_time_increment)]_vars

\* C1 (amended): after the commit of a snapshot requested at t0, the job's
\* stored cursor is t0 + 15 minutes, whatever the actual timestamp ta of the
\* traversal was.
C1_CursorFromRequested ==
    [][Committing => db'.Jobs[job_id].time_next = Some(time_initial + query_time_increment)]_vars

\* A committed snapshot whose rows carry t0 + 60 s while the cursor is t0 + 15 min.
C1_Witness ==
    /\ pc = "main"
    /\ db.Jobs[1].time_next = Some(date_min + query_time_increment)
    /\ \E row \in db.Events : row.time = date_min + 2 * subquery_time_increment

\* C2: the committed database changes only by a commit, which stores all of
\* the snapshot's rows, all pairs of the mirror and the cursor advance
\* together; a killed or failed run leaves it as last committed.
C2_AllOrNothing ==
    [][db' # db =>
        /\ Committing
        /\ db'.Events = db.Events \cup
               { Row(events[i], enums, time_actual) : i \in 1..Len(events) }
        /\ \A ec \in EnumCols : db'.Enumeration[ec] = Pairs(enums[ec])
        /\ db'.Jobs = [db.Jobs EXCEPT ![job_id].time_next = Some(time_next)]
        /\ db'.Jobs[job_id].time_next # db.Jobs[job_id].time_next]_vars

\* A run that committed a snapshot with rows and then failed on a
\* primary-key collision inside a later transaction.
C2_Witness ==
    /\ pc = "exited"
    /\ err = "IntegrityError"
    /\ db.Events # {}
    /\ db.Enumeration["cause"] # {}
    /\ db.Jobs[1].time_next # Null

\* C3: for one tile at one timestamp, failures other than forbidden give
\* at most 3 requests with a retry sleep after the 1st and the 2nd only; the
\* 3rd raises RetriesExceeded, after which the run only exits.
C3_ThreeTries ==
    [][/\ sent' <= max_tries
       /\ pc' = "get" => sent' < max_tries /\ naps' = sent'
       /\ (pc' = "raised" /\ err' = "RetriesExceeded") =>
              sent' = max_tries /\ naps' = max_tries - 1 /\ ~InSeq("retry", slept')
       /\ pc = "raised" => pc' = "exited" /\ db' = db /\ n_requests' = 0]_vars

C3_Witness ==
    /\ pc = "raised"
    /\ err = "RetriesExceeded"
    /\ sent = 3
    /\ naps = 2
    /\ r.status = "error"

Within(t, lo, hi) == lo <= t /\ t <= hi

Steps(k) == { time_initial + i * subquery_time_increment : i \in 0..k }

\* C4 (as stated): during a snapshot the current timestamp, the timestamp
\* of every request and the timestamp returned all lie within 90 s of the
\* requested timestamp, also when the anchor's search gives up.
C4_DriftWithinBound ==
    InSnapshot =>
        /\ \A t \in reqTimes \cup {the_time} :
               Within(t, time_initial, time_initial + subquery_time_max_dist)
        /\ InCommit => Within(time_actual, time_initial, time_initial + subquery_time_max_dist)

\* C4 (amended): every request of a snapshot is issued at a timestamp within
\* 90 s of the requested one; the current timestamp and the timestamp
\* returned lie within 120 s of it, and reach 120 s exactly when the anchor's
\* search gave up, after which no request is issued and no event collected.
C4_RequestsWithinBound ==
    InSnapshot =>
        /\ \A t \in reqTimes : Within(t, time_initial, time_initial + subquery_time_max_dist)
        /\ Within(the_time, time_initial,
                  time_initial + subquery_time_max_dist + subquery_time_increment)
        /\ InCommit => time_actual = the_time
        /\ the_time > time_initial + subquery_time_max_dist =>
               /\ pc \notin {"get", "process"}
               /\ tiles = <<>>
               /\ events = <<>>
               /\ okTimes = {}

\* The traversal returned after the anchor's search gave up.
C4_Witness ==
    /\ pc = "begin"
    /\ time_actual = time_initial + 4 * subquery_time_increment
    /\ reqTimes = Steps(3)

\* C5: once a response succeeded, the anchor succeeded after k <= 3
\* forbidden answers; the current timestamp is t0 + 30k s and stays so,
\* every successful response was requested at it, no request was issued
\* later than it, and it is the timestamp the traversal returns.
C5_OneTimestamp ==
    (InSnapshot /\ okTimes # {}) =>
        /\ okTimes = {the_time}
        /\ \E k \in 0..3 : the_time = time_initial + k * subquery_time_increment
                           /\ reqTimes = Steps(k)
        /\ InCommit => time_actual = the_time

\* Forbidden at t0 and t0 + 30 s, success at t0 + 60 s, then a child tile.
C5_Witness ==
    /\ pc = "begin"
    /\ time_actual = time_initial + 2 * subquery_time_increment
    /\ okTimes = {time_actual}
    /\ Len(events) >= 2
    /\ n_requests = 4

ForbiddenElsewhere == pc = "get" /\ r'.status = "forbidden" /\ ~(tile = top_tiles[1])

\* C6: a forbidden response for a tile other than the anchor ends the
\* tile's fetch after that one request, with no retry sleep, no change of
\* the timestamp, the events or the queue; and within a snapshot the
\* timestamp changes only by a forbidden response for the anchor.
C6_ForbiddenSkips ==
    [][/\ ForbiddenElsewhere =>
              /\ pc' = "loop"
              /\ n_requests' = n_requests + 1
              /\ ~InSeq("retry", slept')
              /\ the_time' = the_time
              /\ events' = events
              /\ tiles' = tiles
       /\ (InSnapshot /\ InSnapshot' /\ the_time' # the_time) =>
              /\ pc = "get"
              /\ tile = top_tiles[1]
              /\ r'.status = "forbidden"
              /\ the_time' = the_time + subquery_time_increment]_vars

\* A child tile answered forbidden and the traversal went on.
C6_Witness ==
    /\ pc = "loop"
    /\ r.status = "forbidden"
    /\ tile # top_tiles[1]
    /\ the_time = time_initial
    /\ events # <<>>

GaveUp == InCommit /\ okTimes = {}

\* C7: a snapshot whose every anchor answer was forbidden requested the
\* anchor at exactly t0, t0+30, t0+60 and t0+90 s and ended without an
\* error and without events; its transaction writes no event row and no
\* enumeration pair, and its commit advances the job's cursor.
C7_GiveUpStillCommits ==
    [][/\ GaveUp' =>
              /\ reqTimes' = { time_initial' + i * subquery_time_increment : i \in 0..3 }
              /\ events' = <<>>
              /\ err' = ""
              /\ txn' # <<>> => /\ txn'[1].Events = db'.Events
                                /\ txn'[1].Enumeration = db'.Enumeration
       /\ GaveUp => pc' \in {"save", "update", "commit", "main", "killed"}
       /\ (GaveUp /\ Committing) =>
              /\ db'.Events = db.Events
              /\ db.Jobs[job_id].time_next # Null =>
                     db'.Jobs[job_id].time_next[1] > db.Jobs[job_id].time_next[1]
              /\ db'.Jobs[job_id].time_next # Null]_vars

\* The transaction of a snapshot that gave up, about to commit.
C7_Witness ==
    /\ pc = "commit"
    /\ GaveUp
    /\ txn # <<>>
    /\ txn[1].Jobs[job_id].time_next # db.Jobs[job_id].time_next

Requesting == pc = "get" /\ pc' # "killed"

\* C8: the counter of a run grows by one with every request, whatever the
\* response, and by nothing else; a between-requests sleep follows a request
\* exactly when the request's ordinal is a multiple of 30, so fewer than 30
\* requests pass without one.
C8_ThrottleEvery30 ==
    [][/\ Requesting =>
              /\ n_requests' = n_requests + 1
              /\ r'.status \in {"ok", "forbidden", "error"}
              /\ InSeq("between_requests", slept') <=>
                     n_requests' % request_sleep_interval = 0
       /\ ~Requesting =>
              /\ ~InSeq("between_requests", slept')
              /\ n_requests' = n_requests \/ (pc' \in {"exited", "killed"} /\ n_requests' = 0)
       /\ unslept' < request_sleep_interval]_vars

\* The 30th request of a run, a failure, followed by both sleeps.
C8_Witness ==
    /\ n_requests = request_sleep_interval
    /\ slept = <<"between_requests", "retry">>
    /\ r.status = "error"
    /\ time_initial > date_min

EmittedBy(rec) ==
    IF ~rec.desc.cluster THEN << <<rec.p, 1, rec.desc>> >>
    ELSE [i \in 1..Len(rec.desc.outages) |-> <<rec.p, i, rec.desc.outages[i]>>]

RECURSIVE Emitted(_)
Emitted(body) == IF body = <<>> THEN <<>> ELSE EmittedBy(Head(body)) \o Emitted(Tail(body))

\* C9: a processed response appends to the snapshot's events, in record
\* order, one triple with index 1 per non-clustered record, the n triples
\* with indices 1..n and the cluster's point per itemized cluster, and none
\* per cluster without sub-events; nothing else changes the events of a snapshot.
C9_EmittedTriples ==
    [][/\ (pc = "process" /\ pc' = "loop") => events' = events \o Emitted(r.body)
       /\ (InSnapshot /\ InSnapshot' /\ pc # "process") => events' = events]_vars

\* A single event followed by the two sub-events of an itemized cluster.
C9_Witness ==
    /\ pc = "loop"
    /\ Len(events) = 3
    /\ events[1] = <<P1, 1, D1>>
    /\ events[2] = <<Pmid, 1, D1>>
    /\ events[3] = <<Pmid, 2, Dna>>

Mismatch(rec) ==
    /\ rec.desc.cluster
    /\ rec.desc.outages # <<>>
    /\ rec.desc.cust_a # SumCust(rec.desc.outages)

\* C10: a response holding an itemized cluster whose count differs from the
\* sum of its sub-events' counts ends the run by an AssertionError while no
\* transaction is open; the run exits with the committed database as it was.
C10_MismatchIsFatal ==
    [][/\ (pc = "process" /\ pc' # "killed" /\ \E i \in 1..Len(r.body) : Mismatch(r.body[i])) =>
              /\ pc' = "raised"
              /\ err' = "AssertionError"
              /\ db' = db
       /\ pc' \in {"loop", "get", "process"} => txn' = <<>>
       /\ (pc' = "raised" /\ r'.status = "ok") => txn' = <<>>
       /\ (pc = "raised" /\ r.status = "ok") =>
              pc' = "exited" /\ db' = db /\ txn' = <<>> /\ events' = <<>>]_vars

\* The faulty cluster came after a tile whose events had been collected.
C10_Witness ==
    /\ pc = "raised"
    /\ err = "AssertionError"
    /\ r.status = "ok"
    /\ events # <<>>
    /\ txn = <<>>
    /\ tile # top_tiles[1]

\* ------------------------------------------------------------ the queue
Range(s) == { s[i] : i \in 1..Len(s) }

NoDup(s) == \A i, j \in 1..Len(s) : s[i] = s[j] => i = j

IsPrefix(s, t) == Len(s) <= Len(t) /\ SubSeq(t, 1, Len(s)) = s

\* The records of a body that want the tile c fetched.
Wanting(body, c) ==
    { i \in 1..Len(body) : Unitemized(body[i]) /\ point_in_tile(body[i].p, c) }

First(S) == CHOOSE x \in S : \A y \in S : x <= y

Processed == pc = "process" /\ pc' = "loop"

\* C11: processing one tile's response appends to the back of the queue
\* exactly the children of that tile that contain the point of at least one
\* cluster without sub-events and were not queued already, each once, in
\* the order of the first such cluster, and leaves the rest of the queue as
\* it was.
C11_ChildrenEnqueuedOnce ==
    [][Processed =>
        /\ IsPrefix(tiles, tiles')
        /\ LET added == SubSeq(tiles', Len(tiles) + 1, Len(tiles'))
           IN  /\ NoDup(added)
               /\ Range(added) =
                      { c \in Range(children(tile)) : Wanting(r.body, c) # {} }
                          \ Range(tiles)
               /\ \A i, j \in 1..Len(added) :
                      i < j => First(Wanting(r.body, added[i]))
                                   <= First(Wanting(r.body, added[j]))]_vars

\* Two clusters without sub-events at one point of the top tile: the one
\* child holding the point is queued, once.
C11_Witness ==
    /\ pc = "loop"
    /\ tile = top_tiles[1]
    /\ r.status = "ok"
    /\ dataLeft = MaxData - 2
    /\ events = <<>>
    /\ tiles = << <<2>> >>

\* ----------------------------------------------------------- termination
\* 1 + 4 + ... + 4^k: the tiles of a subtree of k levels below its root.
RECURSIVE Pow4Sum(_)
Pow4Sum(k) == IF k <= 0 THEN 1 ELSE 1 + 4 * Pow4Sum(k - 1)

Subtree(t) == Pow4Sum(MaxDepth - Len(t))

\* The steps one tile can take: a pop, max_tries requests at each of the
\* MaxShifts + 1 timestamps, the processing of the response.
PerTile == (MaxShifts + 1) * max_tries + 2

RECURSIVE QueueWork(_)
QueueWork(q) ==
    IF q = <<>> THEN 0 ELSE Subtree(Head(q)) * PerTile + QueueWork(Tail(q))

ShiftsLeft ==
    IF tile = top_tiles[1] /\ the_time - time_initial < subquery_time_max_dist
    THEN (time_initial + subquery_time_max_dist - the_time) \div subquery_time_increment
    ELSE 0

TriesLeft == IF tries < max_tries THEN max_tries - tries ELSE 0

\* The steps the traversal can still take.
Work ==
    QueueWork(tiles)
    + (CASE pc = "get" -> (Subtree(tile) - 1) * PerTile
                          + ShiftsLeft * max_tries + TriesLeft + 1
         [] pc = "process" -> (Subtree(tile) - 1) * PerTile + 1
         [] OTHER -> 0)

Traversing == pc \in {"loop", "get", "process"}

\* C12: the traversal of one snapshot terminates: every step that stays in
\* the traversal lowers a natural number, the steps the queue, the retries
\* and the realignments still allow, and a traversal that has nothing left
\* to do returns.
C12_TraversalTerminates ==
    [][/\ (Traversing /\ Traversing') => Work' < Work
       /\ Traversing => Work >= 0
       /\ (Traversing /\ Work = 0) => (pc = "loop" /\ tiles = <<>> /\ ENABLED Return)]_vars

\* A traversal of two tiles with a retry on each has returned.
C12_Witness ==
    /\ pc = "begin"
    /\ Len(popped) = 2
    /\ n_requests = MaxRequests
    /\ err = ""

\* ------------------------------------------------------------- the rows
\* save() has events to write and every one of them passes its assertion.
Saving ==
    /\ pc = "save"
    /\ events # <<>>
    /\ \A i \in 1..Len(events) : events[i][3].keys_ok

\* The mirror once save() has looked at every event, and the row of each
\* event under it.
SavedEnums == Normalize(events, enums, <<>>, time_actual).enums

SaveRows == [i \in 1..Len(events) |-> Row(events[i], SavedEnums, time_actual)]

SaveOut == Normalize(events, enums, <<>>, time_actual).out

\* The places of the rows that no earlier row equals.
Kept(rows) == { i \in 1..Len(rows) : \A j \in 1..(i - 1) : rows[j] # rows[i] }

FirstOccurrences(out, rows) ==
    /\ Len(out) = Cardinality(Kept(rows))
    /\ \A i \in Kept(rows) : out[Cardinality({ k \in Kept(rows) : k <= i })] = rows[i]

SharedKey(out) == \E i, j \in 1..Len(out) : i # j /\ Key(out[i]) = Key(out[j])

\* C13: the rows save() inserts are the rows of the events with every later
\* fully identical row dropped, the first occurrences in their order, so no
\* two of them are identical; two rows that share the primary key and differ
\* elsewhere are both kept, the insert raises, and the stored tables stay as
\* they were; without such a pair and without a stored row of the same key
\* exactly these rows are written.
C13_FirstOccurrencesKept ==
    [][/\ (Saving /\ pc' # "killed") =>
              /\ NoDup(SaveOut)
              /\ FirstOccurrences(SaveOut, SaveRows)
              /\ SharedKey(SaveOut) =>
                     /\ pc' = "raised"
                     /\ err' = "IntegrityError"
                     /\ db' = db
              /\ pc' = "update" => Cur'.Events = Cur.Events \cup Range(SaveOut)
       /\ pc = "raised" => db' = db]_vars

\* Two events of one point and index that differ in a field: the first row
\* went into the transaction, the second raised.
C13_Witness ==
    /\ pc = "raised"
    /\ err = "IntegrityError"
    /\ Len(events) = 2
    /\ events[1] # events[2]
    /\ events[1][1] = events[2][1]
    /\ events[1][2] = events[2][2]
    /\ db.Events = {}
    /\ txn # <<>>
    /\ Cardinality(txn[1].Events) = 1

\* A row of the snapshot is in the committed table already.
StoredAgain == Saving /\ \E i \in 1..Len(events) : SaveRows[i] \in db.Events

\* C14: a snapshot with a row that is stored already cannot be committed
\* again: its insert raises, the run ends, and the stored tables are what
\* they were; the Events table only ever gains rows, and never two of one
\* primary key.
C14_StoredRowsStay ==
    [][/\ (StoredAgain /\ pc' # "killed") =>
              /\ pc' = "raised"
              /\ err' = "IntegrityError"
              /\ db' = db
       /\ (pc = "raised" /\ err = "IntegrityError") => (pc' = "exited" /\ db' = db)
       /\ db.Events \subseteq db'.Events
       /\ \A a, b \in db'.Events : Key(a) = Key(b) => a = b]_vars

\* The second job fetched the snapshot the first job stored, and its
\* insert raised.
C14_Witness ==
    /\ pc = "raised"
    /\ err = "IntegrityError"
    /\ job_id = 2
    /\ events # <<>>
    /\ Range(SaveRows) \subseteq db.Events

\* ----------------------------------------------------- the enumerations
IsEnumeration(table) ==
    /\ { row.code : row \in table } = 0..(Cardinality(table) - 1)
    /\ Cardinality({ row.meaning : row \in table }) = Cardinality(table)

\* The first event of the snapshot that carries the meaning m in column ec.
FirstSeen(ec, m) == First({ i \in 1..Len(events) : NaToNone(events[i][3][ec]) = m })

\* C15: each stored enumeration table pairs the codes 0..n-1 with n distinct
\* meanings; a stored pair is never removed or changed, whatever ends the
\* run; a commit gives its new meanings the next codes in the order the
\* snapshot's events first show them; and whenever main() is about to pick
\* a job, after a commit or a restart, the mirror equals the stored table.
C15_EnumerationsStable ==
    [][\A ec \in EnumCols :
        /\ IsEnumeration(db.Enumeration[ec])
        /\ IsEnumeration(db'.Enumeration[ec])
        /\ db.Enumeration[ec] \subseteq db'.Enumeration[ec]
        /\ db'.Enumeration[ec] # db.Enumeration[ec] => Committing
        /\ Committing =>
               \A a, b \in db'.Enumeration[ec] \ db.Enumeration[ec] :
                   a.code < b.code <=> FirstSeen(ec, a.meaning) < FirstSeen(ec, b.meaning)
        /\ pc' = "main" => Pairs(enums'[ec]) = db'.Enumeration[ec]]_vars

\* Two meanings were stored, the one first seen under code 0.
C15_Witness ==
    /\ pc = "main"
    /\ db.Enumeration["cause"] =
           { [code |-> 0, meaning |-> "storm"], [code |-> 1, meaning |-> "tree"] }
    /\ Pairs(enums["cause"]) = db.Enumeration["cause"]

\* ------------------------------------------------------------- geometry
\* The box of a tile, as <<lon_min, lat_min, lon_max, lat_max>>.
Box(t) == <<to_geo_SW(t)[2], to_geo_SW(t)[1], to_geo_NE(t)[2], to_geo_NE(t)[1]>>

\* The point lies on a line that two children of t share.
OnSharedBoundary(p, t) ==
    \E i, j \in 1..4 :
        /\ i < j
        /\ \/ p[1] = Box(children(t)[i])[3] /\ p[1] = Box(children(t)[j])[1]
           \/ p[1] = Box(children(t)[i])[1] /\ p[1] = Box(children(t)[j])[3]
           \/ p[2] = Box(children(t)[i])[4] /\ p[2] = Box(children(t)[j])[2]
           \/ p[2] = Box(children(t)[i])[2] /\ p[2] = Box(children(t)[j])[4]

Holders(p, t) == { i \in 1..4 : point_in_tile(p, children(t)[i]) }

\* The cluster without sub-events that lines 205-210 are looking at.
Located == r.body[1].p

\* C16: point_in_tile holds of exactly the points of the tile's closed box,
\* its four edges and corners included; a point of the tile on no line
\* shared by two of its children is in exactly one child, and processing a
\* cluster without sub-events at such a point enqueues that child alone.
C16_EdgesInclusiveChildrenPartition ==
    [][(Processed /\ Len(r.body) = 1 /\ Unitemized(r.body[1])) =>
        /\ point_in_tile(Located, tile) <=>
               /\ Box(tile)[1] <= Located[1] /\ Located[1] <= Box(tile)[3]
               /\ Box(tile)[2] <= Located[2] /\ Located[2] <= Box(tile)[4]
        /\ \A x \in {Box(tile)[1], Box(tile)[3]} :
               point_in_tile(<<x, Located[2]>>, tile) <=>
                   (Box(tile)[2] <= Located[2] /\ Located[2] <= Box(tile)[4])
        /\ \A y \in {Box(tile)[2], Box(tile)[4]} :
               point_in_tile(<<Located[1], y>>, tile) <=>
                   (Box(tile)[1] <= Located[1] /\ Located[1] <= Box(tile)[3])
        /\ (point_in_tile(Located, tile) /\ ~OnSharedBoundary(Located, tile)) =>
               /\ Cardinality(Holders(Located, tile)) = 1
               /\ tiles' = tiles \o
                      << children(tile)[CHOOSE i \in Holders(Located, tile) : TRUE] >>]_vars

\* A cluster at a corner of a tile below the top: the one child that
\* holds the corner is queued.
C16_Witness ==
    /\ pc = "loop"
    /\ tile # top_tiles[1]
    /\ Len(tiles) = 1
    /\ Len(tiles[1]) = Len(tile) + 1
    /\ SubSeq(tiles[1], 1, Len(tile)) = tile

\* C17: in one snapshot no tile is dequeued twice and no tile is queued
\* while it waits in the queue or after it was dequeued: the tiles dequeued
\* so far followed by the queue never hold a tile twice, and the tile being
\* fetched is the last one dequeued.
C17_EachTileOnce ==
    InSnapshot =>
        /\ NoDup(popped \o tiles)
        /\ pc \in {"get", "process"} => (popped # <<>> /\ tile = popped[Len(popped)])

\* The top tile and one of its four children were dequeued; the other
\* three wait.
C17_Witness ==
    /\ pc = "get"
    /\ Len(popped) = 2
    /\ Len(tiles) = 3

\* ------------------------------------------------------ the transaction
\* C18: a write transaction is open only between `begin` and `commit` (or
\* the abort of the run), and it is one transaction; none is open while
\* main() picks a job or scrape() requests, and no sleep is part of a step
\* that leaves one open.
C18_NoRequestInTransaction ==
    /\ Len(txn) <= 1
    /\ txn # <<>> => (pc \in {"save", "update", "commit", "raised"} /\ slept = <<>>)
    /\ pc \in {"main", "loop", "get", "process", "begin", "done", "exited", "killed"}
           => txn = <<>>

\* The transaction of the second snapshot of a run, the first committed.
C18_Witness ==
    /\ pc = "update"
    /\ txn # <<>>
    /\ job_id = 2
    /\ db.Jobs[1].time_next # Null
    /\ n_requests >= 2
    /\ txn[1].Events # db.Events

\* -------------------------------------------------------------- the jobs
Unfinished(jobs) ==
    { j \in DOMAIN jobs :
        jobs[j].time_next = Null \/ jobs[j].time_next[1] <= jobs[j].time_max }

Selecting == pc = "main" /\ pc' = "loop"

RunOver == pc \in {"done", "exited", "killed"}

\* C19: main() takes the unfinished job of the lowest job_id and starts a
\* null cursor at date_min; only a commit changes the Jobs table, and it
\* raises the cursor of the job taken and of no other, so no job is touched
\* while a lower one is unfinished; the run reports that it is done only
\* when no job is unfinished; and a run that is left to run ends, done
\* unless a fault or a kill ended it.
C19_LowestJobFirst ==
    /\ [][/\ Selecting =>
                 /\ job_id' \in Unfinished(db.Jobs)
                 /\ \A j \in Unfinished(db.Jobs) : job_id' <= j
                 /\ time_initial' = IF db.Jobs[job_id'].time_next = Null THEN date_min
                                     ELSE db.Jobs[job_id'].time_next[1]
          /\ db'.Jobs # db.Jobs => Committing
          /\ Committing =>
                 /\ \A j \in Unfinished(db.Jobs) : job_id <= j
                 /\ db'.Jobs[job_id].time_next # Null
                 /\ db'.Jobs[job_id].time_next[1] > time_initial
                 /\ (db.Jobs[job_id].time_next # Null =>
                        db'.Jobs[job_id].time_next[1] > db.Jobs[job_id].time_next[1])
                 /\ \A j \in DOMAIN db.Jobs : (j # job_id => db'.Jobs[j] = db.Jobs[j])
                 /\ DOMAIN db'.Jobs = DOMAIN db.Jobs
          /\ pc' = "done" => Unfinished(db'.Jobs) = {}]_vars
    /\ (pc = "main") ~> RunOver
    /\ (pc = "main" /\ Unfinished(db.Jobs) # {}) ~>
           (pc \in {"exited", "killed"} \/ (pc = "main" /\ Unfinished(db.Jobs) = {}))

\* One run took the lower job through its snapshots, then the higher, and
\* ended with every job done.
C19_Witness ==
    /\ pc = "done"
    /\ n_requests = FirstSnapshots + 1
    /\ \A j \in DOMAIN db.Jobs :
           db.Jobs[j].time_next # Null /\ db.Jobs[j].time_next[1] > db.Jobs[j].time_max

\* ---------------------------------------------------- the times of rows
Written == db'.Events \ db.Events

\* C20: the rows a commit adds for the snapshot requested at t0 all carry
\* one time ta with t0 <= ta, below the cursor the same commit stores for
\* the job; when save() runs, every stored row of the job is older than t0,
\* so the rows of two snapshots of a job never share a time, and a stored
\* row never has the primary key of a row being written.
C20_RowTimesBelowCursor ==
    [][/\ Committing =>
              /\ \A row \in Written :
                     /\ row.time = time_actual
                     /\ time_initial <= row.time
                     /\ row.time < db'.Jobs[job_id].time_next[1]
              /\ \A old \in db.Events : \A row \in Written : old.time < row.time
       /\ pc = "save" =>
              /\ \A old \in db.Events : old.time < time_initial
              /\ \A old \in db.Events : \A i \in 1..Len(events) :
                     Key(old) # <<site_code, events[i][1][1], events[i][1][2],
                                  time_actual, events[i][2]>>]_vars

\* Two committed snapshots of the job each stored a row of the same point
\* and index.
C20_Witness ==
    /\ pc = "main"
    /\ \E a, b \in db.Events :
           /\ a.time # b.time
           /\ a.ilon = b.ilon
           /\ a.ilat = b.ilat
           /\ a.outage_ix = b.outage_ix
    /\ db.Jobs[1].time_next = Some(date_min + FirstSnapshots * query_time_increment)

====
